---- MODULE Spec2Model ----
(***************************************************************************)
(* mc_tools (src/src/main.rs): a shared State {enabled, config} behind one *)
(* Mutex, mutated by the F12 hook callback, read by the right-mouse-button *)
(* hook callback (the key emitter) and read and mutated by the terminal    *)
(* main loop; Config is persisted to config.json as JSON text.             *)
(***************************************************************************)
EXTENDS Integers, Sequences, FiniteSets, TLC

(***************************************************************************)
(* Bounds of the model.                                                    *)
(***************************************************************************)
\* terminal key presses the main loop reads in one run
MaxKeys == 3
\* F12 press events (one hook callback thread each)
MaxToggles == 1
\* right-button press events (one hook callback thread each)
MaxPresses == 1
\* the clock ticks the main loop sees pass after last_update is taken
MaxTicks == 1
\* the largest bound of a range the Config harness saves
MaxSaved == 9

(***************************************************************************)
(* Program constants.                                                      *)
(***************************************************************************)
\* u8: min_key and max_key hold 0..255
U8Size == 256
\* the modulus of the Left/Right edits and the radix of char::from_digit
Radix == 10
\* the step of a Left edit: (v + 9) % 10
LeftStep == 9
\* the step of a Right edit: (v + 1) % 10
RightStep == 1
\* the default Config of Config::load
DefaultMin == 1
DefaultMax == 9
\* the menu has four items
list_length == 4
\* the snapshot is refreshed when more than 1000 ms have elapsed
RefreshMs == 1000
\* the emitter sleeps 250 ms per iteration
SleepMs == 250
\* the clock of the model ticks in steps of five sleeps, which is more than
\* RefreshMs
TickMs == 5 * SleepMs

(***************************************************************************)
(* Config and its JSON text.  A text is the sequence of its lexemes with   *)
(* white space dropped; a number is the run of its decimal digit           *)
(* characters.                                                             *)
(***************************************************************************)
Config(mn, mx) == [min_key |-> mn, max_key |-> mx]

DigitChar == <<"0", "1", "2", "3", "4", "5", "6", "7", "8", "9">>

IsDigit(c) == \E d \in 1..Radix : DigitChar[d] = c

DigitVal(c) == (CHOOSE d \in 1..Radix : DigitChar[d] = c) - 1

\* the decimal digits of an unsigned integer, most significant first
RECURSIVE Itoa(_)
Itoa(n) == IF n < Radix THEN <<DigitChar[n + 1]>>
           ELSE Itoa(n \div Radix) \o <<DigitChar[(n % Radix) + 1]>>

\* a variant of ToJson that writes each value under the other field's name
ToJsonSwapped(cfg) ==
    <<"{", "min_key", ":">> \o Itoa(cfg.max_key) \o
    <<",", "max_key", ":">> \o Itoa(cfg.min_key) \o <<"}">>

\* serde_json::to_string_pretty(&Config): the derived Serialize writes the
\* fields in declaration order
ToJson(cfg) ==
    <<"{", "min_key", ":">> \o Itoa(cfg.min_key) \o
    <<",", "max_key", ":">> \o Itoa(cfg.max_key) \o <<"}">>

\* the index after the run of digits of s that starts at i
RECURSIVE DigitsEnd(_, _)
DigitsEnd(s, i) == IF i <= Len(s) /\ IsDigit(s[i]) THEN DigitsEnd(s, i + 1) ELSE i

\* the value of the digits s[i..j-1]
RECURSIVE DigitsVal(_, _, _)
DigitsVal(s, i, j) == IF j <= i THEN 0
                      ELSE DigitsVal(s, i, j - 1) * Radix + DigitVal(s[j - 1])

\* a JSON number at s[i]: at least one digit, no leading zero
NumberOk(s, i) == LET j == DigitsEnd(s, i)
                  IN  j > i /\ (s[i] = "0" => j = i + 1)

NoField == -1
ParseError == [ok |-> FALSE, min_key |-> 0, max_key |-> 0]

\* the derived Deserialize visiting the members of a JSON object from s[i]:
\* the fields may come in any order, an unknown field is skipped, a field
\* twice, a field missing, a number that does not fit u8 and characters
\* after the closing brace are errors
RECURSIVE ParseMembers(_, _, _, _)
ParseMembers(s, i, mn, mx) ==
    IF i + 2 > Len(s) \/ s[i + 1] # ":" \/ ~NumberOk(s, i + 2) THEN ParseError
    ELSE LET j == DigitsEnd(s, i + 2)
             v == DigitsVal(s, i + 2, j)
             known == s[i] \in {"min_key", "max_key"}
             isKey == known \/ s[i] = "other"
             dup == (s[i] = "min_key" /\ mn # NoField) \/ (s[i] = "max_key" /\ mx # NoField)
             mn2 == IF s[i] = "min_key" THEN v ELSE mn
             mx2 == IF s[i] = "max_key" THEN v ELSE mx
         IN  IF ~isKey \/ dup \/ (known /\ v >= U8Size) \/ j > Len(s) THEN ParseError
             ELSE IF s[j] = "," THEN ParseMembers(s, j + 1, mn2, mx2)
             ELSE IF s[j] = "}" /\ j = Len(s) /\ mn2 # NoField /\ mx2 # NoField
                  THEN [ok |-> TRUE, min_key |-> mn2, max_key |-> mx2]
             ELSE ParseError

\* the derived Deserialize visiting a JSON array: min_key then max_key
ParseSeq(s) ==
    IF ~NumberOk(s, 2) THEN ParseError
    ELSE LET j == DigitsEnd(s, 2)
         IN  IF j + 1 > Len(s) \/ s[j] # "," \/ ~NumberOk(s, j + 1) THEN ParseError
             ELSE LET k == DigitsEnd(s, j + 1)
                      mn == DigitsVal(s, 2, j)
                      mx == DigitsVal(s, j + 1, k)
                  IN  IF k = Len(s) /\ s[k] = "]" /\ mn < U8Size /\ mx < U8Size
                      THEN [ok |-> TRUE, min_key |-> mn, max_key |-> mx]
                      ELSE ParseError

\* serde_json::from_str::<Config>
FromJson(s) == IF Len(s) < 2 THEN ParseError
               ELSE IF s[1] = "{" THEN ParseMembers(s, 2, NoField, NoField)
               ELSE IF s[1] = "[" THEN ParseSeq(s)
               ELSE ParseError

(***************************************************************************)
(* The file config.json: absent, not readable as UTF-8 text, or a text.    *)
(***************************************************************************)
Absent == [kind |-> "absent", text |-> <<>>]
Binary == [kind |-> "binary", text |-> <<>>]
Text(s) == [kind |-> "text", text |-> s]

\* Config::save: std::fs::write(file, to_string_pretty(self).unwrap()).unwrap();
\* wr tells whether the file system accepts the write
ConfigSave(cfg, f, wr) ==
    IF wr THEN [panic |-> FALSE, file |-> Text(ToJson(cfg))]
    ELSE [panic |-> TRUE, file |-> f]

\* a variant of ConfigLoad whose Err arm returns the default without saving it
ConfigLoadNoSave(f, wr) ==
    IF f.kind = "text"
    THEN LET p == FromJson(f.text)
         IN  [panic |-> ~p.ok, arm |-> "Ok", file |-> f,
              config |-> Config(p.min_key, p.max_key)]
    ELSE [panic |-> FALSE, arm |-> "Err", file |-> f,
          config |-> Config(DefaultMin, DefaultMax)]

\* Config::load: the Ok arm decodes the text and unwraps the result, the Err
\* arm (no file, or a file read_to_string cannot read) saves and returns the
\* default
ConfigLoad(f, wr) ==
    IF f.kind = "text"
    THEN LET p == FromJson(f.text)
         IN  [panic |-> ~p.ok, arm |-> "Ok", file |-> f,
              config |-> Config(p.min_key, p.max_key)]
    ELSE LET config == Config(DefaultMin, DefaultMax)
             w == ConfigSave(config, f, wr)
         IN  [panic |-> w.panic, arm |-> "Err", file |-> w.file, config |-> config]

(***************************************************************************)
(* The state of a run.                                                     *)
(***************************************************************************)
VARIABLES
    file,        \* config.json
    state,       \* the State behind the Mutex: [enabled, config]
    holders,     \* the contexts that hold a MutexGuard of state
    poisoned,    \* a context panicked while it held the guard
    main_pc,     \* where the main thread is
    loop_state,  \* the main loop's copy of State
    list_index,  \* the menu cursor
    key,         \* the key code whose handler is running, or "none"
    keys_read,   \* terminal key presses read so far
    terminal,    \* "cooked", or "raw" (alternate screen and raw mode)
    elapsed,     \* last_update.elapsed() as last read, in ticks of TickMs
    toggle_pc,   \* where each F12 callback thread is
    emit_pc,     \* where each right-button callback thread is
    button,      \* MouseButton::RightButton.is_pressed()
    random_number, \* the emitter's draw of the running iteration, or NoKey
    hist,        \* the last operation of the Config harness, its outcome (the
                 \* Config saved or loaded, a panic, the kind of file it found)
                 \* and the operation before it
    odd_requests \* the number of requests to flip enabled made so far (F12
                 \* press events, and Left, Right or Enter key presses read
                 \* on item 0) is odd

vars == <<file, state, holders, poisoned, main_pc, loop_state, list_index, key,
          keys_read, terminal, elapsed, toggle_pc, emit_pc, button,
          random_number, hist, odd_requests>>

Main == <<"main", 0>>
Toggle(t) == <<"toggle", t>>
Emit(e) == <<"emit", e>>
Toggles == 1..MaxToggles
Emits == 1..MaxPresses

NoKey == -1
KeyCodes == {"q", "Tab", "Up", "Down", "Left", "Right", "Enter", "other"}
\* the keys whose handlers lock the state
CmdKeys == {"Left", "Right", "Enter"}

State(en, cfg) == [enabled |-> en, config |-> cfg]

\* the process runs until main returns or panics
Alive == main_pc \notin {"exited", "panicked"}
\* the callbacks are bound and handle_input_events runs
Hooked == Alive /\ main_pc \notin {"load", "setup"}

\* u8 addition: a debug build panics on overflow, a release build wraps
AddU8(a, b, wrap) == [panic |-> a + b >= U8Size /\ ~wrap, val |-> (a + b) % U8Size]

(***************************************************************************)
(* The texts config.json may hold when the program starts.                 *)
(***************************************************************************)
Num(n) == Itoa(n)
Obj(k1, v1, k2, v2) == <<"{", k1, ":">> \o v1 \o <<",", k2, ":">> \o v2 \o <<"}">>

\* texts that decode
GoodTexts ==
    { ToJson(Config(1, 9)), ToJson(Config(0, 0)), ToJson(Config(5, 3)),
      ToJson(Config(3, 12)), ToJson(Config(250, 7)), ToJson(Config(255, 255)),
      Obj("max_key", Num(4), "min_key", Num(2)),
      <<"{", "min_key", ":", "6", ",", "other", ":", "3", "0", "0", ",",
        "max_key", ":", "8", "}">>,
      <<"[">> \o Num(2) \o <<",">> \o Num(2) \o <<"]">> }

\* texts that do not
BadTexts ==
    { <<>>, <<"{", "}">>, <<"{", "min_key", ":", "1", "}">>,
      <<"{", "min_key", ":", "1", ",", "max_key", ":", "9">>,
      Obj("min_key", Num(1), "max_key", Num(256)),
      Obj("min_key", <<"0", "1">>, "max_key", Num(9)),
      Obj("min_key", Num(1), "min_key", Num(9)),
      <<"junk">> }

\* config.json before the harness works on it
StoreFiles == {Absent, Binary} \cup {Text(s) : s \in GoodTexts \cup BadTexts}

\* config.json before a run of the program that no one has written but the
\* program: not there, cut short by a crash, or as saved
InitFiles == {Absent, Binary, Text(<<"{", "}">>), Text(ToJson(Config(1, 9)))}

\* config.json as an editor may leave it: any two u8 values decode
EditedFiles == {Text(ToJson(Config(3, 250))), Text(ToJson(Config(5, 3)))}

\* no Config operation yet
NoOp == [op |-> "none", config |-> Config(0, 0), panic |-> FALSE,
         before |-> "none", prev |-> [op |-> "none", config |-> Config(0, 0)]]

Init ==
    /\ file \in InitFiles
    /\ state = State(FALSE, Config(0, 0))
    /\ holders = {}
    /\ poisoned = FALSE
    /\ main_pc = "load"
    /\ loop_state = State(FALSE, Config(0, 0))
    /\ list_index = 0
    /\ key = "none"
    /\ keys_read = 0
    /\ terminal = "cooked"
    /\ elapsed = 0
    /\ toggle_pc = [t \in Toggles |-> "idle"]
    /\ emit_pc = [e \in Emits |-> "idle"]
    /\ button = FALSE
    /\ random_number = NoKey
    /\ hist = NoOp
    /\ odd_requests = FALSE

(***************************************************************************)
(* Mutex<State>.                                                           *)
(***************************************************************************)
\* a variant of CanLock that never waits
CanLockAlways(c) == TRUE

\* a variant of CanLock in which the F12 callback does not wait
CanLockHook(c) == c[1] = "toggle" \/ holders = {}

\* lock() returns once no other context holds the guard
CanLock(c) == holders = {}

\* lock().unwrap(): Err(PoisonError) when a holder panicked before
LockPanics == poisoned

\* the guard is dropped, at the end of its scope or by the unwinding of a panic
Unlock(c) == holders' = holders \ {c}

(***************************************************************************)
(* The main thread.                                                        *)
(***************************************************************************)
\* lines 56-59: the State is built from Config::load("config.json")
Startup ==
    /\ main_pc = "load"
    /\ \E wr \in BOOLEAN :
         LET r == ConfigLoad(file, wr)
         IN  /\ file' = r.file
             /\ IF r.panic
                THEN main_pc' = "panicked" /\ UNCHANGED state
                ELSE main_pc' = "setup" /\ state' = State(FALSE, r.config)
    /\ UNCHANGED <<holders, poisoned, loop_state, list_index, key, keys_read,
                   terminal, elapsed, toggle_pc, emit_pc, button, random_number, hist,
                   odd_requests>>

\* lines 62-100: the callbacks are bound, the input thread is spawned and the
\* terminal enters the alternate screen and raw mode
Setup ==
    /\ main_pc = "setup"
    /\ main_pc' = "snapshot"
    /\ terminal' = "raw"
    /\ UNCHANGED <<file, state, holders, poisoned, loop_state, list_index, key,
                   keys_read, elapsed, toggle_pc, emit_pc, button, random_number, hist,
                   odd_requests>>

\* the main thread's state.lock().unwrap() of lines 103, 113, 188, 203, 218
MainLock ==
    /\ main_pc \in {"snapshot", "refresh", "cmd"}
    /\ CanLock(Main)
    /\ IF LockPanics
       THEN main_pc' = "panicked" /\ UNCHANGED holders
       ELSE /\ holders' = holders \cup {Main}
            /\ main_pc' = CASE main_pc = "snapshot" -> "snapshot_cs"
                            [] main_pc = "refresh" -> "refresh_cs"
                            [] OTHER -> "cmd_cs"
    /\ UNCHANGED <<file, state, poisoned, loop_state, list_index, key, keys_read,
                   terminal, elapsed, toggle_pc, emit_pc, button, random_number, hist,
                   odd_requests>>

\* lines 103-105 and 113: loop_state = guard.clone(), the guard dropped at the
\* end of the statement; last_update is taken once, after the first clone
MainClone ==
    /\ main_pc \in {"snapshot_cs", "refresh_cs"}
    /\ loop_state' = state
    /\ Unlock(Main)
    /\ main_pc' = IF main_pc = "snapshot_cs" THEN "top" ELSE "draw"
    /\ UNCHANGED <<file, state, poisoned, list_index, key, keys_read, terminal,
                   elapsed, toggle_pc, emit_pc, button, random_number, hist,
                   odd_requests>>

\* line 112: last_update.elapsed().as_millis() > 1000
RefreshDue(ticks) == ticks * TickMs > RefreshMs

\* lines 111-112: the head of a cycle of the main loop reads the time since
\* last_update, which line 105 took once and nothing sets again: a reading is
\* never less than the one before
LoopTop ==
    /\ main_pc = "top"
    /\ \E now \in elapsed..MaxTicks :
         /\ elapsed' = now
         /\ main_pc' = IF RefreshDue(now) THEN "refresh" ELSE "draw"
    /\ UNCHANGED <<file, state, holders, poisoned, loop_state, list_index, key,
                   keys_read, terminal, toggle_pc, emit_pc, button,
                   random_number, hist, odd_requests>>

\* lines 176 and 184: Tab and Down
NextIndex(i) == (i + 1) % list_length

\* a variant of PrevIndex that stops at item 0 instead of wrapping
PrevIndexClamp(i) == IF i = 0 THEN 0 ELSE i - 1

\* line 180: Up
PrevIndex(i) == (i + list_length - 1) % list_length

\* lines 116-168: the frame is drawn from loop_state and list_index, and
\* event::poll(16 ms) finds no key press
PollTimeout ==
    /\ main_pc = "draw"
    /\ main_pc' = "top"
    /\ UNCHANGED <<file, state, holders, poisoned, loop_state, list_index, key,
                   keys_read, terminal, elapsed, toggle_pc, emit_pc, button,
                   random_number, hist, odd_requests>>

\* lines 116-186 and 229: the frame is drawn and a key press is read; q, the
\* navigation keys and the unbound keys are handled at once, Left, Right and
\* Enter go on to the lock (on item 0 they are a request to flip enabled)
PollKey(k) ==
    /\ main_pc = "draw"
    /\ keys_read < MaxKeys
    /\ keys_read' = keys_read + 1
    /\ key' = IF k \in CmdKeys THEN k ELSE "none"
    /\ main_pc' = CASE k = "q" -> "teardown"
                    [] k \in CmdKeys -> "cmd"
                    [] OTHER -> "top"
    /\ list_index' = CASE k \in {"Tab", "Down"} -> NextIndex(list_index)
                       [] k = "Up" -> PrevIndex(list_index)
                       [] OTHER -> list_index
    /\ odd_requests' = (odd_requests # (k \in CmdKeys /\ list_index = 0))
    /\ UNCHANGED <<file, state, holders, poisoned, loop_state, terminal, elapsed,
                   toggle_pc, emit_pc, button, random_number, hist>>

\* a variant of Flip that sets enabled instead of negating it
FlipSet(st) == [st EXCEPT !.enabled = TRUE]

\* state.enabled = !state.enabled (lines 68, 191, 206, 221)
Flip(st) == [st EXCEPT !.enabled = ~st.enabled]

\* a variant of StepKey that stops at 0 and at 9 instead of wrapping
StepKeyClamp(v, step, wrap) ==
    [panic |-> FALSE,
     val |-> IF step = RightStep THEN (IF v >= Radix - 1 THEN Radix - 1 ELSE v + 1)
             ELSE (IF v = 0 THEN 0 ELSE v - 1)]

\* (v + step) % 10 on u8 (lines 194, 197, 209, 212)
StepKey(v, step, wrap) ==
    LET a == AddU8(v, step, wrap)
    IN  [panic |-> a.panic, val |-> a.val % Radix]

\* lines 189-200 (step 9) and 204-215 (step 1): match list_index of Left, Right
EditCmd(st, i, step, wrap) ==
    CASE i = 0 -> [panic |-> FALSE, state |-> Flip(st)]
      [] i = 1 -> LET r == StepKey(st.config.min_key, step, wrap)
                  IN  [panic |-> r.panic,
                       state |-> IF r.panic THEN st
                                 ELSE [st EXCEPT !.config.min_key = r.val]]
      [] i = 2 -> LET r == StepKey(st.config.max_key, step, wrap)
                  IN  [panic |-> r.panic,
                       state |-> IF r.panic THEN st
                                 ELSE [st EXCEPT !.config.max_key = r.val]]
      [] OTHER -> [panic |-> FALSE, state |-> st]

\* a variant of EnterCmd whose item 0 sets enabled instead of negating it
EnterCmdSet(st, i, f, wr) ==
    CASE i = 0 -> [panic |-> FALSE, state |-> [st EXCEPT !.enabled = TRUE], file |-> f]
      [] i = 3 -> LET w == ConfigSave(st.config, f, wr)
                  IN  [panic |-> w.panic, state |-> st, file |-> w.file]
      [] OTHER -> [panic |-> FALSE, state |-> st, file |-> f]

\* lines 219-227: match list_index of Enter
EnterCmd(st, i, f, wr) ==
    CASE i = 0 -> [panic |-> FALSE, state |-> Flip(st), file |-> f]
      [] i = 3 -> LET w == ConfigSave(st.config, f, wr)
                  IN  [panic |-> w.panic, state |-> st, file |-> w.file]
      [] OTHER -> [panic |-> FALSE, state |-> st, file |-> f]

\* a variant of KeyCmd that saves the range after every Left and Right
KeyCmdAutoSave(k, st, i, f, wrap, wr) ==
    IF k \in {"Left", "Right"}
    THEN LET r == EditCmd(st, i, IF k = "Left" THEN LeftStep ELSE RightStep, wrap)
             w == ConfigSave(r.state.config, f, wr)
         IN  [panic |-> r.panic \/ w.panic, state |-> r.state, file |-> w.file]
    ELSE EnterCmd(st, i, f, wr)

\* the handler of key k under the guard
KeyCmd(k, st, i, f, wrap, wr) ==
    CASE k = "Left" -> LET r == EditCmd(st, i, LeftStep, wrap)
                       IN  [panic |-> r.panic, state |-> r.state, file |-> f]
      [] k = "Right" -> LET r == EditCmd(st, i, RightStep, wrap)
                        IN  [panic |-> r.panic, state |-> r.state, file |-> f]
      [] OTHER -> EnterCmd(st, i, f, wr)

\* lines 187-228: the Left, Right or Enter handler once it holds the guard; a
\* panic unwinds through the guard and poisons the Mutex
MainCmd ==
    /\ main_pc = "cmd_cs"
    /\ \E wrap \in BOOLEAN, wr \in BOOLEAN :
         LET r == KeyCmd(key, state, list_index, file, wrap, wr)
         IN  /\ state' = r.state
             /\ file' = r.file
             /\ poisoned' = (poisoned \/ r.panic)
             /\ main_pc' = IF r.panic THEN "panicked" ELSE "top"
    /\ Unlock(Main)
    /\ key' = "none"
    /\ UNCHANGED <<loop_state, list_index, keys_read, terminal, elapsed,
                   toggle_pc, emit_pc, button, random_number, hist,
                   odd_requests>>

\* lines 236-241: the terminal is restored and the process exits with 0
Teardown ==
    /\ main_pc = "teardown"
    /\ terminal' = "cooked"
    /\ main_pc' = "exited"
    /\ UNCHANGED <<file, state, holders, poisoned, loop_state, list_index, key,
                   keys_read, elapsed, toggle_pc, emit_pc, button, random_number, hist,
                   odd_requests>>

(***************************************************************************)
(* The hook callbacks; each event runs its callback on a thread of its own. *)
(***************************************************************************)
\* an F12 press event: the closure of lines 66-69 starts
F12Press(t) ==
    /\ Hooked
    /\ toggle_pc[t] = "idle"
    /\ \A u \in Toggles : u < t => toggle_pc[u] # "idle"
    /\ toggle_pc' = [toggle_pc EXCEPT ![t] = "lock"]
    /\ odd_requests' = ~odd_requests
    /\ UNCHANGED <<file, state, holders, poisoned, main_pc, loop_state,
                   list_index, key, keys_read, terminal, elapsed, emit_pc,
                   button, random_number, hist>>

\* line 67: state_ref.lock().unwrap()
ToggleLock(t) ==
    /\ Alive
    /\ toggle_pc[t] = "lock"
    /\ CanLock(Toggle(t))
    /\ IF LockPanics
       THEN toggle_pc' = [toggle_pc EXCEPT ![t] = "panicked"] /\ UNCHANGED holders
       ELSE /\ toggle_pc' = [toggle_pc EXCEPT ![t] = "flip"]
            /\ holders' = holders \cup {Toggle(t)}
    /\ UNCHANGED <<file, state, poisoned, main_pc, loop_state, list_index, key,
                   keys_read, terminal, elapsed, emit_pc, button, random_number, hist,
                   odd_requests>>

\* lines 68-69: the flip, and the guard dropped at the end of the closure
ToggleFlip(t) ==
    /\ Alive
    /\ toggle_pc[t] = "flip"
    /\ state' = Flip(state)
    /\ Unlock(Toggle(t))
    /\ toggle_pc' = [toggle_pc EXCEPT ![t] = "done"]
    /\ UNCHANGED <<file, poisoned, main_pc, loop_state, list_index, key,
                   keys_read, terminal, elapsed, emit_pc, button, random_number, hist,
                   odd_requests>>

\* the right button goes down: the closure of lines 73-86 starts
ButtonPress(e) ==
    /\ Hooked
    /\ ~button
    /\ emit_pc[e] = "idle"
    /\ \A u \in Emits : u < e => emit_pc[u] # "idle"
    /\ button' = TRUE
    /\ emit_pc' = [emit_pc EXCEPT ![e] = "lock"]
    /\ UNCHANGED <<file, state, holders, poisoned, main_pc, loop_state,
                   list_index, key, keys_read, terminal, elapsed, toggle_pc,
                   random_number, hist, odd_requests>>

\* the right button goes up
ButtonRelease ==
    /\ Hooked
    /\ button
    /\ button' = FALSE
    /\ UNCHANGED <<file, state, holders, poisoned, main_pc, loop_state,
                   list_index, key, keys_read, terminal, elapsed, toggle_pc,
                   emit_pc, random_number, hist, odd_requests>>

\* line 74: state_ref.lock().unwrap()
EmitLock(e) ==
    /\ Alive
    /\ emit_pc[e] = "lock"
    /\ CanLock(Emit(e))
    /\ IF LockPanics
       THEN emit_pc' = [emit_pc EXCEPT ![e] = "panicked"] /\ UNCHANGED holders
       ELSE /\ emit_pc' = [emit_pc EXCEPT ![e] = "check"]
            /\ holders' = holders \cup {Emit(e)}
    /\ UNCHANGED <<file, state, poisoned, main_pc, loop_state, list_index, key,
                   keys_read, terminal, elapsed, toggle_pc, button, random_number, hist,
                   odd_requests>>

\* a variant of LoopCond that does not read enabled
LoopCondNoArm(st, down) == down

\* a variant of LoopCond that does not read the button
LoopCondNoButton(st, down) == st.enabled

\* line 76: the condition of the while loop
LoopCond(st, down) == st.enabled /\ down

\* line 76, and line 86 when the condition is false: the closure returns and
\* drops the guard
EmitCheck(e) ==
    /\ Alive
    /\ emit_pc[e] = "check"
    /\ IF LoopCond(state, button)
       THEN emit_pc' = [emit_pc EXCEPT ![e] = "draw"] /\ UNCHANGED holders
       ELSE emit_pc' = [emit_pc EXCEPT ![e] = "done"] /\ Unlock(Emit(e))
    /\ UNCHANGED <<file, state, poisoned, main_pc, loop_state, list_index, key,
                   keys_read, terminal, elapsed, toggle_pc, button, random_number,
                   hist, odd_requests>>

\* a variant of RangeEmpty for a gen_range that does not notice an empty range
\* and never returns from it
RangeEmptyUnnoticed(cfg) == FALSE

\* line 78: rng.gen_range(min_key..=max_key) panics on an empty range
RangeEmpty(cfg) == cfg.min_key > cfg.max_key

\* a variant of DrawSet with the range fixed to the default keys
DrawSetFixed(cfg) == DefaultMin .. DefaultMax

\* line 78: the values gen_range may return
DrawSet(cfg) == cfg.min_key .. cfg.max_key

\* line 79: char::from_digit(n, 10) is Some for n < 10; get_keybd_key maps
\* the character to the number-row key of that digit
KeyOf(n) == IF n < Radix THEN DigitVal(DigitChar[n + 1]) ELSE NoKey

\* lines 78-81: the draw and the key press; a panic unwinds through the guard
\* and poisons the Mutex
EmitDraw(e) ==
    /\ Alive
    /\ emit_pc[e] = "draw"
    /\ \/ /\ ~RangeEmpty(state.config)
          /\ \E k \in {KeyOf(n) : n \in DrawSet(state.config)} \ {NoKey} :
               random_number' = k
          /\ emit_pc' = [emit_pc EXCEPT ![e] = "sleep"]
          /\ UNCHANGED <<holders, poisoned>>
       \/ /\ \/ RangeEmpty(state.config)
             \/ \E n \in DrawSet(state.config) : KeyOf(n) = NoKey
          /\ emit_pc' = [emit_pc EXCEPT ![e] = "panicked"]
          /\ poisoned' = TRUE
          /\ Unlock(Emit(e))
          /\ UNCHANGED random_number
    /\ UNCHANGED <<file, state, main_pc, loop_state, list_index, key, keys_read,
                   terminal, elapsed, toggle_pc, button, hist, odd_requests>>

\* lines 84-85: thread::sleep(250 ms), the guard still held; the iteration
\* ends and its random_number goes out of scope
EmitSleep(e) ==
    /\ Alive
    /\ emit_pc[e] = "sleep"
    /\ emit_pc' = [emit_pc EXCEPT ![e] = "check"]
    /\ random_number' = NoKey
    /\ UNCHANGED <<file, state, holders, poisoned, main_pc, loop_state,
                   list_index, key, keys_read, terminal, elapsed, toggle_pc,
                   button, hist, odd_requests>>

Next ==
    \/ Startup
    \/ Setup
    \/ MainLock
    \/ MainClone
    \/ LoopTop
    \/ PollTimeout
    \/ \E k \in KeyCodes : PollKey(k)
    \/ MainCmd
    \/ Teardown
    \/ \E t \in Toggles : F12Press(t) \/ ToggleLock(t) \/ ToggleFlip(t)
    \/ \E e \in Emits : ButtonPress(e) \/ EmitLock(e) \/ EmitCheck(e)
                          \/ EmitDraw(e) \/ EmitSleep(e)
    \/ ButtonRelease

Spec == Init /\ [][Next]_vars

\* the steps of the callback thread of F12 press t
ToggleStep(t) == ToggleLock(t) \/ ToggleFlip(t)

\* the steps of the callback thread of right-button press e
EmitStep(e) == EmitLock(e) \/ EmitCheck(e) \/ EmitDraw(e) \/ EmitSleep(e)

\* the steps of the main thread
MainThread ==
    \/ Startup
    \/ Setup
    \/ MainLock
    \/ MainClone
    \/ LoopTop
    \/ PollTimeout
    \/ \E k \in KeyCodes : PollKey(k)
    \/ MainCmd
    \/ Teardown

\* the steps of the callback threads
HookStep == \E t \in Toggles : ToggleStep(t) \/ \E e \in Emits : EmitStep(e)

\* the threads are scheduled fairly: if the main thread can take a step
\* again and again (its next statement, or the return of a lock() whose
\* Mutex is free again and again) it takes one, and if some callback thread
\* can, one of them does; this follows from the fair scheduling of every
\* thread.  Nothing is assumed of the key and button events.
Fairness == SF_vars(MainThread) /\ SF_vars(HookStep)

\* a run that starts from the config.json that an earlier run wrote
InitFair == Init /\ file = Text(ToJson(Config(DefaultMin, DefaultMax)))

\* the keys of the terminal in the runs that are checked for progress: a
\* command (on item 0 it flips enabled, on item 3 it saves), a move of the
\* cursor, and the quit
FairKeys == {"Enter", "Up", "q"}

NextFair ==
    \/ Startup
    \/ Setup
    \/ MainLock
    \/ MainClone
    \/ LoopTop
    \/ PollTimeout
    \/ \E k \in FairKeys : PollKey(k)
    \/ MainCmd
    \/ Teardown
    \/ \E t \in Toggles : F12Press(t) \/ ToggleLock(t) \/ ToggleFlip(t)
    \/ \E e \in Emits : ButtonPress(e) \/ EmitLock(e) \/ EmitCheck(e)
                          \/ EmitDraw(e) \/ EmitSleep(e)
    \/ ButtonRelease

SpecFair == InitFair /\ [][NextFair]_vars /\ Fairness

\* a run that starts from a config.json edited by hand
InitEdited ==
    /\ file \in EditedFiles
    /\ state = State(FALSE, Config(0, 0))
    /\ holders = {}
    /\ poisoned = FALSE
    /\ main_pc = "load"
    /\ loop_state = State(FALSE, Config(0, 0))
    /\ list_index = 0
    /\ key = "none"
    /\ keys_read = 0
    /\ terminal = "cooked"
    /\ elapsed = 0
    /\ toggle_pc = [t \in Toggles |-> "idle"]
    /\ emit_pc = [e \in Emits |-> "idle"]
    /\ button = FALSE
    /\ random_number = NoKey
    /\ hist = NoOp
    /\ odd_requests = FALSE

SpecEdited == InitEdited /\ [][Next]_vars

\* the ranges of runs in which the menu has edited both bounds before
MenuConfigs == {Config(2, 8)}

\* a run from its start without a config.json, or a run taken up in its first
\* second at the head of a cycle of the main loop, after Down, Right, Down and
\* Left keys (and more) have edited the default range: config.json holds the
\* default that the startup wrote, loop_state the snapshot of line 103; the
\* key presses before the run is taken up count as one in keys_read
InitMenu ==
    /\ file \in {Absent, Text(ToJson(Config(DefaultMin, DefaultMax)))}
    /\ IF file = Absent
       THEN /\ state = State(FALSE, Config(0, 0))
            /\ main_pc = "load"
            /\ loop_state = State(FALSE, Config(0, 0))
            /\ list_index = 0
            /\ terminal = "cooked"
       ELSE /\ state \in {State(FALSE, c) : c \in MenuConfigs}
            /\ main_pc = "top"
            /\ loop_state = State(FALSE, Config(DefaultMin, DefaultMax))
            /\ list_index = 2
            /\ terminal = "raw"
    /\ holders = {}
    /\ poisoned = FALSE
    /\ key = "none"
    /\ keys_read = IF file = Absent THEN 0 ELSE 1
    /\ elapsed = 0
    /\ toggle_pc = [t \in Toggles |-> "idle"]
    /\ emit_pc = [e \in Emits |-> "idle"]
    /\ button = FALSE
    /\ random_number = NoKey
    /\ hist = NoOp
    /\ odd_requests = FALSE

SpecMenu == InitMenu /\ [][Next]_vars

(***************************************************************************)
(* Config on its own: a harness that saves and loads config.json, as the   *)
(* program does at line 58 (load) and line 224 (save).                     *)
(***************************************************************************)
\* the Configs the harness saves
StoreConfigs == {Config(mn, mx) : mn \in 0..MaxSaved, mx \in 0..MaxSaved}
                  \cup {Config(255, 0), Config(100, 255)}

InitStore ==
    /\ file \in StoreFiles
    /\ state = State(FALSE, Config(0, 0))
    /\ holders = {}
    /\ poisoned = FALSE
    /\ main_pc = "load"
    /\ loop_state = State(FALSE, Config(0, 0))
    /\ list_index = 0
    /\ key = "none"
    /\ keys_read = 0
    /\ terminal = "cooked"
    /\ elapsed = 0
    /\ toggle_pc = [t \in Toggles |-> "idle"]
    /\ emit_pc = [e \in Emits |-> "idle"]
    /\ button = FALSE
    /\ random_number = NoKey
    /\ hist = NoOp
    /\ odd_requests = FALSE

\* cfg.save("config.json") (lines 24-26); a panic ends the harness
StoreSave(cfg) ==
    /\ ~hist.panic
    /\ \E wr \in BOOLEAN :
         LET r == ConfigSave(cfg, file, wr)
         IN  /\ file' = r.file
             /\ hist' = [op |-> "save", config |-> cfg, panic |-> r.panic,
                         before |-> file.kind,
                         prev |-> [op |-> hist.op, config |-> hist.config]]
    /\ UNCHANGED <<state, holders, poisoned, main_pc, loop_state, list_index,
                   key, keys_read, terminal, elapsed, toggle_pc, emit_pc,
                   button, random_number, odd_requests>>

\* Config::load("config.json") (lines 28-43); a panic ends the harness
StoreLoad ==
    /\ ~hist.panic
    /\ \E wr \in BOOLEAN :
         LET r == ConfigLoad(file, wr)
         IN  /\ file' = r.file
             /\ hist' = [op |-> "load", config |-> r.config, panic |-> r.panic,
                         before |-> file.kind,
                         prev |-> [op |-> hist.op, config |-> hist.config]]
    /\ UNCHANGED <<state, holders, poisoned, main_pc, loop_state, list_index,
                   key, keys_read, terminal, elapsed, toggle_pc, emit_pc,
                   button, random_number, odd_requests>>

NextStore ==
    \/ \E cfg \in StoreConfigs : StoreSave(cfg)
    \/ StoreLoad

SpecStore == InitStore /\ [][NextStore]_vars

(***************************************************************************)
(* Properties.                                                             *)
(***************************************************************************)
\* a step of the Left, Right or Enter handler under the guard
CmdStep == main_pc = "cmd_cs" /\ main_pc' # "cmd_cs"

\* the positions at which a callback of the emitter is inside its guard
InLoop(e) == emit_pc[e] \in {"check", "draw", "sleep"}

\* C1: at most one context holds the guard of State, and every context that
\* is at a position where the code reads or writes enabled, min_key or
\* max_key (the clone and the handlers of the main loop, the flip of the F12
\* callback, the loop of the emitter) holds it.
C1_ExclusiveAccess ==
    /\ Cardinality(holders) <= 1
    /\ main_pc \in {"snapshot_cs", "refresh_cs", "cmd_cs"} => Main \in holders
    /\ \A t \in Toggles : toggle_pc[t] = "flip" => Toggle(t) \in holders
    /\ \A e \in Emits : InLoop(e) => Emit(e) \in holders

\* the emitter sleeps inside the guard while the main loop and an F12
\* callback both wait for it
C1_Witness ==
    \E e \in Emits, t \in Toggles :
        /\ emit_pc[e] = "sleep" /\ holders = {Emit(e)}
        /\ main_pc = "cmd" /\ toggle_pc[t] = "lock"

\* C2: while a callback of the emitter holds the guard, enabled does not
\* change and an F12 callback that waits for the lock keeps waiting; the flip
\* of an F12 callback negates enabled and happens only when no emitter is in
\* its loop; and once the guard is free (and the Mutex not poisoned) a
\* waiting F12 callback can take it and go on to its flip.
C2_ToggleWaitsForLoop ==
    /\ [][(\E e \in Emits : Emit(e) \in holders)
            => /\ state'.enabled = state.enabled
               /\ \A t \in Toggles : toggle_pc[t] = "lock" => toggle_pc'[t] = "lock"]_vars
    /\ [][\A t \in Toggles :
            (toggle_pc[t] = "flip" /\ toggle_pc'[t] = "done")
            => /\ state'.enabled = ~state.enabled
               /\ \A e \in Emits : ~InLoop(e)]_vars
    /\ [](\A t \in Toggles :
            (Alive /\ toggle_pc[t] = "lock" /\ holders = {} /\ ~poisoned)
            => ENABLED (ToggleLock(t) /\ toggle_pc'[t] = "flip"))

\* an F12 press has arrived while the emitter's loop runs with enabled set
\* and the button down, and waits
C2_Witness ==
    \E e \in Emits, t \in Toggles :
        /\ emit_pc[e] = "draw" /\ Emit(e) \in holders
        /\ state.enabled /\ button
        /\ toggle_pc[t] = "lock"

C4_EmitOnlyArmedAndDown ==
    /\ [][(random_number' # NoKey /\ random_number = NoKey)
            => state.enabled /\ \E e \in Emits : emit_pc[e] = "draw"]_vars
    /\ [][\A e \in Emits :
            (emit_pc[e] # "draw" /\ emit_pc'[e] = "draw")
            => emit_pc[e] = "check" /\ state.enabled /\ button]_vars
    /\ [][\A e \in Emits :
            (emit_pc[e] = "check" /\ emit_pc'[e] # "check" /\ ~state.enabled)
            => /\ emit_pc'[e] = "done"
               /\ Emit(e) \notin holders'
               /\ random_number' = NoKey]_vars
    /\ [][state'.enabled # state.enabled
            => \/ CmdStep /\ list_index = 0
               \/ \E t \in Toggles : toggle_pc[t] = "flip" /\ toggle_pc'[t] = "done"]_vars
    /\ [](main_pc \in {"load", "setup", "snapshot"} /\ (\A t \in Toggles : toggle_pc[t] # "done")
            => ~state.enabled)

\* a key has been pressed in an iteration whose check found the button down,
\* and the button has gone up since
C4_Witness ==
    \E e \in Emits : emit_pc[e] = "sleep" /\ random_number # NoKey /\ ~button

\* C5: a load that finds a text that does not decode returns the default
\* range, writes it to the file and does not panic.
C5_LoadNeverFails ==
    [][(StoreLoad /\ file.kind = "text" /\ ~FromJson(file.text).ok)
         => /\ ~hist'.panic
            /\ hist'.config = Config(1, 9)
            /\ file'.kind = "text"
            /\ FromJson(file'.text) = [ok |-> TRUE, min_key |-> 1, max_key |-> 9]]_vars

C7_SaveLoadRoundTrip ==
    (/\ hist.op = "load" /\ hist.prev.op = "save"
     /\ hist.prev.config.min_key \in 0..9
     /\ hist.prev.config.max_key \in 0..9)
    => ~hist.panic /\ hist.config = hist.prev.config

\* a range with min_key > max_key has been saved and then loaded
C7_Witness ==
    /\ hist.op = "load" /\ hist.prev.op = "save" /\ ~hist.panic
    /\ hist.prev.config.min_key \in 0..9
    /\ hist.prev.config.max_key \in 0..9
    /\ hist.prev.config.min_key > hist.prev.config.max_key

\* C8: both bounds of the range of the State are in 0..9 in every state.
C8_BoundsInDigits ==
    /\ state.config.min_key \in 0..9
    /\ state.config.max_key \in 0..9

\* C9: a Left or Right handler on item 1 (item 2) that finds min_key (max_key)
\* = v in 0..9 sets it to (v - 1) mod 10 or (v + 1) mod 10, leaves the other
\* bound and enabled as they are, and returns to the loop.
C9_EditWraps ==
    [][(CmdStep /\ key \in {"Left", "Right"} /\ list_index \in {1, 2})
         => LET d == IF key = "Right" THEN 1 ELSE -1
                v == IF list_index = 1 THEN state.config.min_key
                     ELSE state.config.max_key
                w == IF list_index = 1 THEN state'.config.min_key
                     ELSE state'.config.max_key
                kept == IF list_index = 1
                        THEN state'.config.max_key = state.config.max_key
                        ELSE state'.config.min_key = state.config.min_key
            IN  v \in 0..9
                => /\ w = (v + d) % 10
                   /\ kept
                   /\ state'.enabled = state.enabled
                   /\ main_pc' = "top"]_vars

\* Right on item 2 has taken max_key from 9 to 0, below min_key
C9_Witness ==
    /\ list_index = 2 /\ main_pc = "top"
    /\ state.config = Config(1, 0)

\* C10: a Left, Right or Enter handler on item 0 negates enabled and leaves
\* the range, the cursor and the file as they are; and from every State the
\* three handlers give the same State, and any two of them in succession
\* give the State back.
C10_ItemZeroFlips ==
    /\ [][(CmdStep /\ list_index = 0)
            => /\ state'.enabled = ~state.enabled
               /\ state'.config = state.config
               /\ list_index' = list_index
               /\ file' = file
               /\ main_pc' = "top"]_vars
    /\ [](\A k1 \in CmdKeys, k2 \in CmdKeys :
            LET r1 == KeyCmd(k1, state, 0, file, TRUE, TRUE)
                r2 == KeyCmd(k2, r1.state, 0, r1.file, TRUE, TRUE)
            IN  /\ ~r1.panic /\ ~r2.panic
                /\ r1.state = KeyCmd("Enter", state, 0, file, TRUE, TRUE).state
                /\ r1.state.enabled = ~state.enabled
                /\ r2.state = state /\ r2.file = file)

\* enabled was set from the menu (no F12 press yet) and a Left handler on
\* item 0 holds the guard, about to clear it again
C10_Witness ==
    /\ main_pc = "cmd_cs" /\ key = "Left" /\ list_index = 0
    /\ state.enabled /\ keys_read = 2
    /\ \A t \in Toggles : toggle_pc[t] = "idle"

\* a step of the main loop that reads a key press from the terminal
KeyStep == main_pc = "draw" /\ keys_read' = keys_read + 1

\* C11: the cursor is in 0..3 in every state; Tab and Down take it from i to
\* (i + 1) mod 4 and Up takes it from i to (i + 3) mod 4; the cursor moves
\* only when a key press is read, and then by one place with wraparound; and
\* a step that reads Tab, Down or Up leaves the State (and the file) as it is.
C11_NavigationWraps ==
    /\ [](list_index \in 0..3)
    /\ [][\A k \in {"Tab", "Down"} :
            PollKey(k) => /\ list_index' = (list_index + 1) % 4
                          /\ (list_index = 3 => list_index' = 0)
                          /\ state' = state /\ file' = file]_vars
    /\ [][PollKey("Up") => /\ list_index' = (list_index + 3) % 4
                           /\ (list_index = 0 => list_index' = 3)
                           /\ state' = state /\ file' = file]_vars
    /\ [][list_index' # list_index
            => /\ KeyStep
               /\ list_index' \in {(list_index + 1) % 4, (list_index + 3) % 4}
               /\ state' = state]_vars

\* Up, the first key read, has taken the cursor from item 0 to item 3
C11_Witness == list_index = 3 /\ keys_read = 1 /\ main_pc = "top"

\* C12: between two successive refreshes of loop_state at least 1000 ms
\* pass: when the cycle before refreshed (it is back at the head of the loop
\* and its reading of the clock was over the threshold), a cycle that goes
\* on to refresh reads the clock at least 1000 ms later.
C12_RefreshThrottled ==
    [][(main_pc = "top" /\ RefreshDue(elapsed) /\ main_pc' = "refresh")
         => (elapsed' - elapsed) * TickMs >= RefreshMs]_vars

\* the positions of the main thread inside its loop (lines 111-234)
LoopPcs == {"top", "refresh", "refresh_cs", "draw", "cmd", "cmd_cs"}

\* the positions at which the main thread is at state.lock() inside the loop
LockPcs == {"refresh", "cmd"}

\* a step of the main thread inside its loop
MainStep ==
    \/ MainLock
    \/ MainClone
    \/ LoopTop
    \/ PollTimeout
    \/ \E k \in KeyCodes : PollKey(k)
    \/ MainCmd

\* the positions at which a callback of the emitter is in an iteration of its
\* loop: its check found enabled set and the button down
Iterating(e) == emit_pc[e] \in {"draw", "sleep"}

\* C13 as stated: while a callback of the emitter is in an iteration of its
\* loop, the main thread can take the next step of its cycle wherever in the
\* loop it is; a cycle waits for the poll only, never for the emitter.
C13_CycleProceeds ==
    \A e \in Emits :
        (main_pc \in LoopPcs /\ Iterating(e)) => ENABLED MainStep

\* C13 as amended: at every position of the loop that is not an acquisition
\* of the State the main thread can take its next step, whatever the other
\* contexts do; at an acquisition it stays where it is while another context
\* holds the guard, and can take it once the guard is free; and the head of
\* the next cycle is reached only through the draw of the frame.
C13_CycleWaitsOnlyForState ==
    /\ [](main_pc \in LoopPcs \ LockPcs => ENABLED MainStep)
    /\ [](main_pc \in LockPcs /\ holders = {} => ENABLED MainStep)
    /\ [](main_pc \in LockPcs /\ holders # {} => ~ENABLED MainStep)
    /\ [][(main_pc \in LockPcs /\ holders # {}) => main_pc' = main_pc]_vars
    /\ [][(main_pc \in LoopPcs /\ main_pc # "top" /\ main_pc' = "top")
            => main_pc \in {"draw", "cmd_cs"}]_vars
    /\ [][(main_pc = "draw" /\ main_pc' # "draw")
            => main_pc' \in {"top", "cmd", "teardown"}]_vars

\* the refresh of a cycle waits for the guard that an emitter callback holds
\* across its sleep, with the button down
C13_Witness ==
    \E e \in Emits :
        /\ main_pc = "refresh" /\ emit_pc[e] = "sleep"
        /\ holders = {Emit(e)} /\ button /\ state.enabled

Waiting(c) ==
    \/ c = Main /\ main_pc \in LockPcs \cup {"snapshot"}
    \/ \E t \in Toggles : c = Toggle(t) /\ toggle_pc[t] = "lock"
    \/ \E e \in Emits : c = Emit(e) /\ emit_pc[e] = "lock"

\* the contexts of a run
Contexts == {Main} \cup {Toggle(t) : t \in Toggles} \cup {Emit(e) : e \in Emits}

\* the step by which context c comes back from state.lock()
LockStep(c) ==
    \/ c = Main /\ MainLock
    \/ \E t \in Toggles : c = Toggle(t) /\ ToggleLock(t)
    \/ \E e \in Emits : c = Emit(e) /\ EmitLock(e)

C16_TerminalRestoredAtExit ==
    main_pc \in {"exited", "panicked"} => terminal = "cooked"

\* C17: while a callback of the emitter is in its loop with enabled set,
\* enabled stays set, and the callback leaves the loop only by the return
\* that follows a check which reads the button released.
C17_LoopEndsOnlyOnRelease ==
    /\ [][\A e \in Emits :
            (InLoop(e) /\ state.enabled /\ InLoop(e)') => state'.enabled]_vars
    /\ [][\A e \in Emits :
            (InLoop(e) /\ state.enabled /\ ~InLoop(e)')
            => /\ state'.enabled
               /\ emit_pc[e] = "check" /\ emit_pc'[e] = "done"
               /\ ~button]_vars

\* the keys of the navigation and of the edits
NavEditKeys == {"Tab", "Up", "Down", "Left", "Right"}

\* the arms of match key.code (lines 171-229) applied to the keys ks in turn,
\* from the State st and the cursor i, with no other context in between
RECURSIVE MenuRun(_, _, _)
MenuRun(ks, st, i) ==
    IF ks = <<>> THEN [state |-> st, list_index |-> i]
    ELSE LET k == Head(ks)
         IN  CASE k \in {"Tab", "Down"} -> MenuRun(Tail(ks), st, NextIndex(i))
               [] k = "Up" -> MenuRun(Tail(ks), st, PrevIndex(i))
               [] k \in CmdKeys ->
                    MenuRun(Tail(ks), KeyCmd(k, st, i, file, TRUE, TRUE).state, i)
               [] OTHER -> MenuRun(Tail(ks), st, i)

\* C18: when the main loop starts with the default range {1, 9} (no key read
\* yet), some sequence of three navigation and Left/Right keys takes the
\* State to a range with min_key > max_key; Up, Up, Right is one: the Right
\* handler on item 2 takes {1, 9} to {1, 0}, and a step of that handler is
\* taken whenever the handler holds the guard.
C18_InvertedRangeReachable ==
    /\ []((main_pc = "top" /\ keys_read = 0
           /\ state.config = Config(DefaultMin, DefaultMax))
          => /\ \E ks \in [1..3 -> NavEditKeys] :
                  LET r == MenuRun(ks, state, list_index)
                  IN  r.state.config.min_key > r.state.config.max_key
             /\ MenuRun(<<"Up", "Up", "Right">>, state, list_index).state.config
                  = Config(1, 0))
    /\ [][(CmdStep /\ key = "Right" /\ list_index = 2
           /\ state.config = Config(DefaultMin, DefaultMax))
          => /\ state'.config = Config(1, 0)
             /\ state'.config.min_key > state'.config.max_key
             /\ main_pc' = "top"]_vars
    /\ [](main_pc = "cmd_cs" => ENABLED MainCmd)

\* three keys of the menu, and nothing else (no F12 press, no button press,
\* no save), have taken the default range to one with min_key > max_key
C18_Witness ==
    /\ state.config.min_key > state.config.max_key
    /\ keys_read = 3 /\ main_pc = "top"
    /\ file = Text(ToJson(Config(DefaultMin, DefaultMax)))
    /\ \A t \in Toggles : toggle_pc[t] = "idle"
    /\ \A e \in Emits : emit_pc[e] = "idle"

\* every request to flip enabled has been carried out: no F12 callback is
\* on its way (or has panicked), and no Left, Right or Enter handler on
\* item 0 is on its way (or has panicked at its lock)
AllToggled ==
    /\ \A t \in Toggles : toggle_pc[t] \in {"idle", "done"}
    /\ ~(key \in CmdKeys /\ list_index = 0)
    /\ main_pc # "load"

\* C19: when every request to flip enabled made so far (the F12 presses and
\* the Left, Right and Enter keys on item 0, from whichever contexts and in
\* whichever order their callbacks and handlers took the guard) has been
\* carried out, enabled is set if the number of requests is odd and clear,
\* as at the start, if it is even.
C19_ToggleParity == AllToggled => (state.enabled = odd_requests)

\* an F12 press and a key of the menu on item 0, from two contexts, have
\* both been carried out: two requests, and enabled is clear again
C19_Witness ==
    /\ AllToggled
    /\ \E t \in Toggles : toggle_pc[t] = "done"
    /\ keys_read = 1 /\ list_index = 0 /\ main_pc = "top"
    /\ ~odd_requests /\ ~state.enabled

\* the emitter callback e is in its loop with a range it can draw from, and
\* the button is up
Released(e) ==
    /\ Alive /\ InLoop(e) /\ ~button
    /\ state.config.min_key <= state.config.max_key

\* no context is at state.lock() or inside the emitter's loop, and the Mutex
\* is not poisoned
Settled ==
    /\ \A c \in Contexts : ~Waiting(c)
    /\ \A e \in Emits : ~InLoop(e)
    /\ ~poisoned

\* C20: a check of the emitter's loop that reads the button released ends
\* the callback and gives the guard up; a context leaves its lock() on a
\* Mutex that is not poisoned only with the guard; and under fair
\* scheduling, from a state in which an emitter callback is in its loop with
\* min_key <= max_key and the button is up, unless the button goes down
\* again (or the process ends), a state follows in which every emitter
\* callback has left its loop without the guard and every context that was
\* waiting at its lock() has come back from it, the Mutex not poisoned.
C20_ReleaseFreesState ==
    /\ [][\A e \in Emits :
            (emit_pc[e] = "check" /\ ~button /\ emit_pc'[e] # "check")
            => emit_pc'[e] = "done" /\ Emit(e) \notin holders']_vars
    /\ [][\A c \in Contexts :
            (Waiting(c) /\ ~Waiting(c)' /\ ~poisoned') => c \in holders']_vars
    /\ [](\A e \in Emits : emit_pc[e] = "done" => Emit(e) \notin holders)
    /\ (\E e \in Emits : Released(e)) ~> (button \/ ~Alive \/ Settled)

\* the button has gone up during a loop with enabled set, the loop has
\* ended, and of the two contexts that were waiting the F12 callback holds
\* the guard while the refresh of the main loop still waits
C20_Witness ==
    \E e \in Emits, t \in Toggles :
        /\ emit_pc[e] = "done" /\ ~button /\ state.enabled
        /\ toggle_pc[t] = "flip" /\ holders = {Toggle(t)}
        /\ main_pc = "refresh"

====
